---------------------------- MODULE Spec2Model ----------------------------
(***************************************************************************)
(* A model of gograph's query construction (package query/cypher) and      *)
(* object mapping and storage (package omg: ReflectionMapper,             *)
(* GenericStore).                                                          *)
(*                                                                         *)
(* A Go string is modelled as the sequence of the pieces that fmt.Sprintf  *)
(* and bytes.Buffer.WriteString concatenate ("tokens"); Join gives the     *)
(* text itself.  Labels and struct field names, whose characters the code  *)
(* inspects (strings.ToLower, strings.ToUpper, s[0:2]), are sequences of   *)
(* one-character strings.  The iteration order of a Go map is unspecified: *)
(* every renderer takes the order as an argument and the actions choose it *)
(* nondeterministically.  A run-time panic is the outcome "panic".         *)
(***************************************************************************)
EXTENDS Integers, Sequences, FiniteSets, TLC

VARIABLES
    subject,    \* which object the program constructed
    calls,      \* setter calls made on the builder so far
    vqb,        \* the VertexQueryBuilder's fields
    vres,       \* what the last VertexQueryBuilder.Build returned (none after a setter)
    eqb,        \* the EdgeQueryBuilder's fields
    eres,       \* what the last EdgeQueryBuilder.Build returned (none after a setter)
    rin,        \* renderer call: the arguments
    rout,       \* renderer call: the returned text
    mtype,      \* mapper: the struct type, a sequence of fields
    msrc,       \* mapper: the struct value ToVertex is given, or given a pointer to
    marg,       \* mapper: the kind of value and the labels ToVertex or ToEdge was given
    mvertex,    \* mapper: what ToVertex returned, or a vertex read from a database
    medge,      \* mapper: what ToEdge returned, or an edge read from a database
    mdst,       \* mapper: the value FromVertex is given to fill
    mret,       \* mapper: what FromVertex or FromEdge returned
    sreq,       \* store: the operation called and its arguments
    sret,       \* store: how the operation ended
    strace,     \* store: the mapper and Connection methods it called, in order
    sfrom,      \* store: what FromVertex and FromEdge returned for the entities read
    cmap,       \* caller: the map it passed to a builder and still holds
    heap        \* caller: the contents of the values its maps hold by reference

builderVars == <<subject, calls, vqb, vres, eqb, eres, rin, rout>>
mapperVars == <<mtype, msrc, marg, mvertex, medge, mdst, mret>>
storeVars == <<sreq, sret, strace, sfrom>>
callerVars == <<cmap, heap>>
vars == <<subject, calls, vqb, vres, eqb, eres, rin, rout,
          mtype, msrc, marg, mvertex, medge, mdst, mret,
          sreq, sret, strace, sfrom, cmap, heap>>

-----------------------------------------------------------------------------
(* Bounds *)

MaxVertexCalls == 3
MaxEdgeCalls == 4
MaxFields == 2

-----------------------------------------------------------------------------
(* Strings *)

\* lower-case / upper-case forms of the letters the model's names use
LetterPairs ==
    { <<"a", "A">>, <<"b", "B">>, <<"c", "C">>, <<"e", "E">>, <<"i", "I">>,
      <<"k", "K">>, <<"l", "L">>, <<"n", "N">>, <<"p", "P">>, <<"r", "R">>, <<"t", "T">> }

ToLowerChar(c) ==
    IF \E p \in LetterPairs : p[2] = c
    THEN (CHOOSE p \in LetterPairs : p[2] = c)[1]
    ELSE c

ToUpperChar(c) ==
    IF \E p \in LetterPairs : p[1] = c
    THEN (CHOOSE p \in LetterPairs : p[1] = c)[2]
    ELSE c

ToLower(s) == [i \in 1..Len(s) |-> ToLowerChar(s[i])]

ToUpper(s) == [i \in 1..Len(s) |-> ToUpperChar(s[i])]

RECURSIVE Join(_)
Join(s) == IF s = <<>> THEN "" ELSE Head(s) \o Join(Tail(s))

RECURSIVE Concat(_)
Concat(ss) == IF ss = <<>> THEN <<>> ELSE Head(ss) \o Concat(Tail(ss))

\* the orders in which a range loop may visit the keys S of a map
Orders(S) ==
    { o \in [1..Cardinality(S) -> S] : \A i, j \in DOMAIN o : i # j => o[i] # o[j] }

-----------------------------------------------------------------------------
(* core: modes, values and property maps *)

Read == "Read"
Write == "Write"
QueryModes == {Read, Write}

Merge == "Merge"
Create == "Create"
WriteModes == {Merge, Create}

EdgeWithVertexIds == "EdgeWithVertexIds"
EdgeWithCompleteVertex == "EdgeWithCompleteVertex"
EdgeFetchModes == {EdgeWithVertexIds, EdgeWithCompleteVertex}

\* an interface{} value: its dynamic type and its %v text
StringValues == { [kind |-> "string", text |-> t] : t \in {"Tom", "10"} }
IntValues == { [kind |-> "int", text |-> t] : t \in {"10"} }
Values == StringValues \cup IntValues

Keys == {"name", "age", "dept"}

\* core.KVMap over the keys K
KVMaps(K) == UNION { [D -> Values] : D \in SUBSET K }

EmptyMap == [k \in {} |-> 0]

\* the slices a caller holds, each with one element, and what %v prints for them
Addresses == {"s1"}
SliceTexts == {"[a]", "[b]"}
SliceValues == { [kind |-> "slice", text |-> a] : a \in Addresses }
NewHeap == [a \in Addresses |-> "[a]"]

\* dst = src
CopyInto_Replace(dst, src) == src

\* for k, v := range src { dst[k] = v }
CopyInto(dst, src) ==
    [k \in DOMAIN dst \cup DOMAIN src |-> IF k \in DOMAIN src THEN src[k] ELSE dst[k]]

-----------------------------------------------------------------------------
(* query/cypher/utils.go *)

\* the verb %v on a value of the map: a slice is read through its reference
Sprint(v) == IF v.kind = "slice" THEN heap[v.text] ELSE v.text

RECURSIVE selectorLoop(_, _, _)
selectorLoop(selector, order, firstFilterProcessed) ==
    IF order = <<>> THEN <<>>
    ELSE LET k == Head(order)
             v == selector[k]
         IN  (IF firstFilterProcessed THEN <<",">> ELSE <<>>)
             \o (IF v.kind = "string"
                 THEN <<k, ":'", v.text, "'">>
                 ELSE <<k, ": ", Sprint(v)>>)
             \o selectorLoop(selector, Tail(order), TRUE)

\* buildSelector without its early return on an empty map
buildSelector_AlwaysBraces(selector, order) ==
    <<"{">> \o selectorLoop(selector, order, FALSE) \o <<"}">>

buildSelector(selector, order) ==
    IF Cardinality(DOMAIN selector) = 0 THEN <<>>
    ELSE <<"{">> \o selectorLoop(selector, order, FALSE) \o <<"}">>

RECURSIVE filterLoop(_, _, _, _)
filterLoop(varName, filters, order, firstFilterProcessed) ==
    IF order = <<>> THEN <<>>
    ELSE LET k == Head(order)
             v == filters[k]
         IN  (IF firstFilterProcessed THEN <<" AND ">> ELSE <<>>)
             \o (IF v.kind = "string"
                 THEN <<varName, ".", k, "='", v.text, "'">>
                 ELSE <<varName, ".", k, "=", Sprint(v)>>)
             \o filterLoop(varName, filters, Tail(order), TRUE)

\* buildFilterConditions joining with buildSelector's separator
buildFilterConditions_Comma(varName, filters, order) ==
    LET r == IF Cardinality(DOMAIN filters) = 0 THEN <<>>
             ELSE filterLoop(varName, filters, order, FALSE)
    IN  [i \in DOMAIN r |-> IF r[i] = " AND " THEN "," ELSE r[i]]

buildFilterConditions(varName, filters, order) ==
    IF Cardinality(DOMAIN filters) = 0 THEN <<>>
    ELSE filterLoop(varName, filters, order, FALSE)

\* multiFilters maps a variable name to its filters; siteOrder is the order in
\* which the outer loop visits the variable names, keyOrder[name] the order of
\* the inner loop over that name's filters
RECURSIVE multiFiltersLoop(_, _, _, _)
multiFiltersLoop(multiFilters, siteOrder, keyOrder, firstFilterProcessed) ==
    IF siteOrder = <<>> THEN <<>>
    ELSE LET k == Head(siteOrder)
             v == multiFilters[k]
         IN  IF Cardinality(DOMAIN v) = 0
             THEN multiFiltersLoop(multiFilters, Tail(siteOrder), keyOrder,
                                   firstFilterProcessed)
             ELSE (IF firstFilterProcessed THEN <<" AND ">> ELSE <<" WHERE ">>)
                  \o buildFilterConditions(k, v, keyOrder[k])
                  \o multiFiltersLoop(multiFilters, Tail(siteOrder), keyOrder, TRUE)

buildMultiFilters(multiFilters, siteOrder, keyOrder) ==
    IF Cardinality(DOMAIN multiFilters) = 0 THEN <<>>
    ELSE multiFiltersLoop(multiFilters, siteOrder, keyOrder, FALSE)

\* the iteration orders a call of buildMultiFilters(multiFilters) may take
MultiFilterOrders(multiFilters) ==
    { [site |-> so, key |-> ko] :
        so \in Orders(DOMAIN multiFilters),
        ko \in { f \in [DOMAIN multiFilters -> UNION { Orders(DOMAIN multiFilters[n]) :
                                                        n \in DOMAIN multiFilters }] :
                    \A n \in DOMAIN multiFilters : f[n] \in Orders(DOMAIN multiFilters[n]) } }

-----------------------------------------------------------------------------
(* What Build returns *)

NoResult == [status |-> "none", query |-> <<>>, err |-> ""]
Ok(query) == [status |-> "ok", query |-> query, err |-> ""]
Err(msg) == [status |-> "err", query |-> <<>>, err |-> msg]
Panic == [status |-> "panic", query |-> <<>>, err |-> ""]

\* strings.ToLower(label)[0:2]; the slice expression panics on a shorter string
CanSlice2(label) == Len(label) >= 2

\* the prefix taken without strings.ToLower
LowerPrefix_NoLower(label) == Join(SubSeq(label, 1, 2))

LowerPrefix(label) == Join(SubSeq(ToLower(label), 1, 2))

\* only the first label written
labelSelectors_FirstOnly(labels) ==
    IF Len(labels) = 0 THEN <<>> ELSE <<":", Join(labels[1])>>

\* for _, label := range labels { WriteString(fmt.Sprintf(":%s", label)) }
labelSelectors(labels) == Concat([i \in 1..Len(labels) |-> <<":", Join(labels[i])>>])

-----------------------------------------------------------------------------
(* The labels, names and maps the callers pass *)

Per == <<"P", "e", "r">>
PET == <<"P", "E", "T">>
Cit == <<"C", "i", "t">>
Kn == <<"K", "n">>
K == <<"K">>
NoChars == <<>>

VarNames == {"", "v"}

BuilderKeys == {"name", "age"}

VertexLabelArgs ==
    { <<>>, <<Per>>, <<K>>, <<NoChars>>, <<Per, Cit>>, <<PET, Per>>, <<K, Per>>,
      <<Cit, Per, PET>> }

VertexMapArgs == KVMaps(BuilderKeys)

-----------------------------------------------------------------------------
(* VertexQueryBuilder *)

NewVertexQueryBuilder ==
    [queryMode |-> Read, labels |-> <<>>, varName |-> "",
     selector |-> EmptyMap, filters |-> EmptyMap, writeMode |-> Merge]

VQB_validate(b) ==
    IF Len(b.labels) = 0 THEN "no vertex labels specified in the query" ELSE ""

VQB_operation(b) ==
    IF b.queryMode = Write
    THEN (IF b.writeMode = Create THEN "CREATE" ELSE "MERGE")
    ELSE "MATCH"

VQB_variableName(b) ==
    IF b.varName # "" THEN b.varName ELSE LowerPrefix(b.labels[1])

\* fmt.Sprintf("%s (%s%s%s) %s return %s", ...)
VQB_query(b, selOrder, filOrder) ==
    LET variableName == VQB_variableName(b)
        selectors == buildSelector(b.selector, selOrder)
        filters == buildMultiFilters((variableName :> b.filters),
                                     <<variableName>>, (variableName :> filOrder))
    IN  <<VQB_operation(b), " ", "(", variableName>> \o labelSelectors(b.labels)
        \o selectors \o <<")", " ">> \o filters \o <<" ", "return ", variableName>>

\* every outcome Build can have on the builder b
VQB_Build(b) ==
    IF VQB_validate(b) # "" THEN { Err(VQB_validate(b)) }
    ELSE IF ~CanSlice2(b.labels[1]) THEN { Panic }
    ELSE { Ok(VQB_query(b, so, fo)) :
             so \in Orders(DOMAIN b.selector), fo \in Orders(DOMAIN b.filters) }

VertexSetter(b) ==
    /\ subject = "VertexQueryBuilder"
    /\ calls < MaxVertexCalls
    /\ calls' = calls + 1
    /\ vqb' = b
    /\ vres' = NoResult
    /\ UNCHANGED <<subject, eqb, eres, rin, rout, mapperVars, storeVars, callerVars>>

VQB_SetQueryMode == \E mode \in QueryModes :
    VertexSetter([vqb EXCEPT !.queryMode = mode])

VQB_SetLabel == \E labels \in VertexLabelArgs :
    VertexSetter([vqb EXCEPT !.labels = labels])

VQB_SetVarName == \E varName \in VarNames :
    VertexSetter([vqb EXCEPT !.varName = varName])

VQB_SetSelector == \E selectors \in VertexMapArgs :
    VertexSetter([vqb EXCEPT !.selector = CopyInto(vqb.selector, selectors)])

VQB_SetFilters == \E filters \in VertexMapArgs :
    VertexSetter([vqb EXCEPT !.filters = CopyInto(vqb.filters, filters)])

VQB_SetWriteMode == \E writeMode \in WriteModes :
    VertexSetter([vqb EXCEPT !.writeMode = writeMode])

\* Build that keeps the variable name it derived in the builder
VQB_BuildCall_KeepsVariable ==
    /\ subject = "VertexQueryBuilder"
    /\ vres' \in VQB_Build(vqb)
    /\ vqb' = IF vres'.status = "ok"
              THEN [vqb EXCEPT !.varName = VQB_variableName(vqb)]
              ELSE vqb
    /\ UNCHANGED <<subject, calls, eqb, eres, rin, rout, mapperVars, storeVars, callerVars>>

VQB_BuildCall ==
    /\ subject = "VertexQueryBuilder"
    /\ vres' \in VQB_Build(vqb)
    /\ UNCHANGED <<subject, calls, vqb, eqb, eres, rin, rout, mapperVars, storeVars, callerVars>>

NextVertex ==
    \/ VQB_SetQueryMode
    \/ VQB_SetLabel
    \/ VQB_SetVarName
    \/ VQB_SetSelector
    \/ VQB_SetFilters
    \/ VQB_SetWriteMode
    \/ VQB_BuildCall

-----------------------------------------------------------------------------
(* EdgeQueryBuilder *)

NewEdgeQueryBuilder ==
    [queryMode |-> Read, edgeFetchMode |-> EdgeWithVertexIds,
     startVertexLabels |-> <<>>, startVertexVarName |-> "",
     endVertexLabels |-> <<>>, endVertexVarName |-> "",
     labels |-> <<>>, varName |-> "",
     startVertexSelector |-> EmptyMap, endVertexSelector |-> EmptyMap,
     selector |-> EmptyMap, filters |-> EmptyMap,
     startVertexFilters |-> EmptyMap, endVertexFilters |-> EmptyMap]

EdgeVarNames == {"", "v"}

EdgeLabelArgs == { <<Per>>, <<PET>>, <<Cit>>, <<Kn>>, <<K>> }

EdgeMapArgs ==
    { ("name" :> [kind |-> "string", text |-> "Tom"]),
      ("name" :> [kind |-> "int", text |-> "10"])
          @@ ("age" :> [kind |-> "string", text |-> "10"]) }

\* validate without its check for more than one edge label
EQB_validate_NoMultipleCheck(b) ==
    IF Len(b.labels) = 0 THEN "no edge labels specified in the query"
    ELSE IF Len(b.startVertexLabels) = 0 /\ b.startVertexVarName = ""
    THEN "either start vertex label or start vertex variable name must be specified"
    ELSE IF Len(b.endVertexLabels) = 0 /\ b.endVertexVarName = ""
    THEN "either end vertex label or end vertex variable name must be specified"
    ELSE ""

EQB_validate(b) ==
    IF Len(b.labels) = 0 THEN "no edge labels specified in the query"
    ELSE IF Len(b.labels) > 1 THEN "multiple edge labels cannot be specified"
    ELSE IF Len(b.startVertexLabels) = 0 /\ b.startVertexVarName = ""
    THEN "either start vertex label or start vertex variable name must be specified"
    ELSE IF Len(b.endVertexLabels) = 0 /\ b.endVertexVarName = ""
    THEN "either end vertex label or end vertex variable name must be specified"
    ELSE ""

\* the vertex builder's keyword choice, with CREATE for writes
EQB_operation_Create(b) == IF b.queryMode = Write THEN "CREATE" ELSE "MATCH"

EQB_operation(b) == IF b.queryMode = Write THEN "MERGE" ELSE "MATCH"

\* buildVertexQueryFragment's second result
vertexVariableName(vertexVarName, vertexlabels) ==
    IF vertexVarName # "" THEN vertexVarName
    ELSE IF Len(vertexlabels) > 0 THEN LowerPrefix(vertexlabels[1])
    ELSE ""

\* buildVertexQueryFragment's first result
buildVertexQueryFragment(vertexVarName, vertexlabels, vertexSelector, order) ==
    <<"(", vertexVariableName(vertexVarName, vertexlabels)>>
    \o labelSelectors(vertexlabels) \o buildSelector(vertexSelector, order) \o <<")">>

\* buildVertexQueryFragment slices the first label whenever there is one
vertexFragmentPanics(vertexlabels) ==
    Len(vertexlabels) > 0 /\ ~CanSlice2(vertexlabels[1])

\* buildEdgeQueryFragment's second result
edgeVariableName(b) ==
    IF b.varName # "" THEN b.varName ELSE LowerPrefix(b.labels[1])

\* buildEdgeQueryFragment's first result
buildEdgeQueryFragment(b, order) ==
    <<edgeVariableName(b)>> \o labelSelectors(b.labels) \o buildSelector(b.selector, order)

\* the map literal {startVertexVarName: ..., endVertexVarName: ..., edgeVarName: ...}:
\* a later entry with an equal key replaces the earlier one
allFilters(b, startVertexVarName, endVertexVarName, edgeVarName) ==
    (edgeVarName :> b.filters)
        @@ (endVertexVarName :> b.endVertexFilters)
        @@ (startVertexVarName :> b.startVertexFilters)

\* the complete-vertex projection with the end variable first
returnFragment_EndFirst(b, startVertexVarName, edgeVarName, endVertexVarName) ==
    IF b.edgeFetchMode = EdgeWithCompleteVertex
    THEN <<"return ", endVertexVarName, ", ", edgeVarName, ", ", startVertexVarName>>
    ELSE <<"return ", edgeVarName>>

returnFragment(b, startVertexVarName, edgeVarName, endVertexVarName) ==
    IF b.edgeFetchMode = EdgeWithCompleteVertex
    THEN <<"return ", startVertexVarName, ", ", edgeVarName, ", ", endVertexVarName>>
    ELSE <<"return ", edgeVarName>>

\* fmt.Sprintf("%s %s-[%s]-%s %s %s", ...); selOrder holds the orders of the three
\* buildSelector loops, filOrder those of buildMultiFilters
EQB_query(b, selOrder, filOrder) ==
    LET startVertexVarName == vertexVariableName(b.startVertexVarName, b.startVertexLabels)
        endVertexVarName == vertexVariableName(b.endVertexVarName, b.endVertexLabels)
        edgeVarName == edgeVariableName(b)
        filters == buildMultiFilters(
                       allFilters(b, startVertexVarName, endVertexVarName, edgeVarName),
                       filOrder.site, filOrder.key)
    IN  <<EQB_operation(b), " ">>
        \o buildVertexQueryFragment(b.startVertexVarName, b.startVertexLabels,
                                    b.startVertexSelector, selOrder.start)
        \o <<"-[">> \o buildEdgeQueryFragment(b, selOrder.edge) \o <<"]-">>
        \o buildVertexQueryFragment(b.endVertexVarName, b.endVertexLabels,
                                    b.endVertexSelector, selOrder.end)
        \o <<" ">> \o filters \o <<" ">>
        \o returnFragment(b, startVertexVarName, edgeVarName, endVertexVarName)

\* every outcome Build can have on the builder b
EQB_Build(b) ==
    IF EQB_validate(b) # "" THEN { Err(EQB_validate(b)) }
    ELSE IF \/ vertexFragmentPanics(b.startVertexLabels)
            \/ vertexFragmentPanics(b.endVertexLabels)
            \/ ~CanSlice2(b.labels[1])
    THEN { Panic }
    ELSE { Ok(EQB_query(b, [start |-> ss, end |-> es, edge |-> s], fo)) :
             ss \in Orders(DOMAIN b.startVertexSelector),
             es \in Orders(DOMAIN b.endVertexSelector),
             s \in Orders(DOMAIN b.selector),
             fo \in MultiFilterOrders(
                        allFilters(b,
                            vertexVariableName(b.startVertexVarName, b.startVertexLabels),
                            vertexVariableName(b.endVertexVarName, b.endVertexLabels),
                            edgeVariableName(b))) }

EdgeSetter(b) ==
    /\ subject = "EdgeQueryBuilder"
    /\ calls < MaxEdgeCalls
    /\ calls' = calls + 1
    /\ eqb' = b
    /\ eres' = NoResult
    /\ UNCHANGED <<subject, vqb, vres, rin, rout, mapperVars, storeVars, callerVars>>

EQB_SetQueryMode == \E mode \in QueryModes :
    EdgeSetter([eqb EXCEPT !.queryMode = mode])

EQB_SetEdgeFetchMode == \E edgeFetchMode \in EdgeFetchModes :
    EdgeSetter([eqb EXCEPT !.edgeFetchMode = edgeFetchMode])

EQB_SetStartVertexLabels == \E labels \in EdgeLabelArgs :
    EdgeSetter([eqb EXCEPT !.startVertexLabels = @ \o labels])

EQB_SetStartVertexVariableName == \E varName \in EdgeVarNames :
    EdgeSetter([eqb EXCEPT !.startVertexVarName = varName])

EQB_SetEndVertexLabels == \E labels \in EdgeLabelArgs :
    EdgeSetter([eqb EXCEPT !.endVertexLabels = @ \o labels])

EQB_SetEndVertexVariableName == \E varName \in EdgeVarNames :
    EdgeSetter([eqb EXCEPT !.endVertexVarName = varName])

\* eqb.labels = labels
EQB_SetLabel_Replaces == \E labels \in EdgeLabelArgs :
    EdgeSetter([eqb EXCEPT !.labels = labels])

EQB_SetLabel == \E labels \in EdgeLabelArgs :
    EdgeSetter([eqb EXCEPT !.labels = @ \o labels])

EQB_SetVariableName == \E varName \in EdgeVarNames :
    EdgeSetter([eqb EXCEPT !.varName = varName])

EQB_SetStartVertexSelector == \E selector \in EdgeMapArgs :
    EdgeSetter([eqb EXCEPT !.startVertexSelector = CopyInto(@, selector)])

EQB_SetEndVertexSelector == \E selector \in EdgeMapArgs :
    EdgeSetter([eqb EXCEPT !.endVertexSelector = CopyInto(@, selector)])

EQB_SetSelector == \E selectors \in EdgeMapArgs :
    EdgeSetter([eqb EXCEPT !.selector = CopyInto(@, selectors)])

EQB_SetFilters == \E filters \in EdgeMapArgs :
    EdgeSetter([eqb EXCEPT !.filters = CopyInto(@, filters)])

EQB_SetStartVertexFilters == \E filters \in EdgeMapArgs :
    EdgeSetter([eqb EXCEPT !.startVertexFilters = CopyInto(@, filters)])

EQB_SetEndVertexFilters == \E filters \in EdgeMapArgs :
    EdgeSetter([eqb EXCEPT !.endVertexFilters = CopyInto(@, filters)])

EQB_BuildCall ==
    /\ subject = "EdgeQueryBuilder"
    /\ eres' \in EQB_Build(eqb)
    /\ UNCHANGED <<subject, calls, vqb, vres, eqb, rin, rout, mapperVars, storeVars, callerVars>>

NextEdge ==
    \/ EQB_SetQueryMode
    \/ EQB_SetEdgeFetchMode
    \/ EQB_SetStartVertexLabels
    \/ EQB_SetStartVertexVariableName
    \/ EQB_SetEndVertexLabels
    \/ EQB_SetEndVertexVariableName
    \/ EQB_SetLabel
    \/ EQB_SetVariableName
    \/ EQB_SetStartVertexSelector
    \/ EQB_SetEndVertexSelector
    \/ EQB_SetSelector
    \/ EQB_SetFilters
    \/ EQB_SetStartVertexFilters
    \/ EQB_SetEndVertexFilters
    \/ EQB_BuildCall

-----------------------------------------------------------------------------
(* Direct calls of the renderers of utils.go *)

RenderVarNames == {"v", "pe"}

NoRenderCall == [fn |-> "none", varName |-> "", m |-> EmptyMap]

Call_buildSelector ==
    /\ subject = "Renderer"
    /\ rin' = [rin EXCEPT !.fn = "buildSelector"]
    /\ rout' \in { buildSelector(rin.m, o) : o \in Orders(DOMAIN rin.m) }
    /\ UNCHANGED <<subject, calls, vqb, vres, eqb, eres, mapperVars, storeVars, callerVars>>

Call_buildFilterConditions ==
    /\ subject = "Renderer"
    /\ rin' = [rin EXCEPT !.fn = "buildFilterConditions"]
    /\ rout' \in { buildFilterConditions(rin.varName, rin.m, o) :
                     o \in Orders(DOMAIN rin.m) }
    /\ UNCHANGED <<subject, calls, vqb, vres, eqb, eres, mapperVars, storeVars, callerVars>>

NextRender ==
    \/ Call_buildSelector
    \/ Call_buildFilterConditions

-----------------------------------------------------------------------------
(* omg: ReflectionMapper *)

\* a struct field: its name, the value of its ogm tag (<<>> when it has none)
\* and the kind of its type; the fields are exported, reflect reads no others
FieldNames == { <<"A", "b">>, <<"A", "B">>, <<"B">> }
OgmTags == { <<>>, <<"B">>, <<"a", "b">>, <<"n">> }
FieldKinds == {"string", "int"}
Fields == [name : FieldNames, tag : OgmTags, kind : FieldKinds]

\* a flat struct type: at most MaxFields fields, of distinct names
StructTypes ==
    { t \in UNION { [1..n -> Fields] : n \in 0..MaxFields } :
        \A i, j \in DOMAIN t : i # j => t[i].name # t[j].name }

TypeName == "person"

ZeroValue(kind) ==
    IF kind = "string" THEN [kind |-> "string", text |-> ""]
    ELSE [kind |-> "int", text |-> "0"]

FieldValues(kind) ==
    IF kind = "string" THEN { ZeroValue(kind), [kind |-> "string", text |-> "Tom"] }
    ELSE { ZeroValue(kind), [kind |-> "int", text |-> "12"] }

ZeroInstance(t) == [i \in DOMAIN t |-> ZeroValue(t[i].kind)]

Instances(t) ==
    { x \in [DOMAIN t -> UNION { FieldValues(k) : k \in FieldKinds }] :
        \A i \in DOMAIN t : x[i] \in FieldValues(t[i].kind) }

MapperLabelArgs == { <<>>, <<"L1", "L2">> }

\* performMap's key for a field
propertyKey(f) == IF f.tag # <<>> THEN f.tag ELSE f.name

\* props[key] = val.Field(i).Interface(), field after field
performMap(t, x) ==
    LET last(k) == CHOOSE i \in DOMAIN t :
                       /\ propertyKey(t[i]) = k
                       /\ \A j \in DOMAIN t : j > i => propertyKey(t[j]) # k
    IN  [k \in { propertyKey(t[i]) : i \in DOMAIN t } |-> x[last(k)]]

\* the kinds of value a caller can pass as v: a struct of type t, a pointer to
\* one, a nil pointer to t, a pointer to a value that is no struct, a value that
\* is neither struct nor pointer, and the nil interface value
ArgKinds == {"struct", "ptr", "nilptr", "ptrscalar", "scalar", "nil"}

\* reflect.TypeOf(nil) is nil, and Kind() on it is a nil dereference
typeOfPanics(v) == v.kind = "nil"

\* reflect.TypeOf(v).Kind() == reflect.Ptr
kindIsPtr(v) == v.kind \in {"ptr", "nilptr", "ptrscalar"}

\* val.NumField() panics unless val is a struct value; val is
\* reflect.Indirect(reflect.ValueOf(v)) for a pointer v
numFieldPanics(v) == v.kind \in {"nilptr", "ptrscalar"}

NoVertex == [status |-> "none", labels |-> <<>>, props |-> EmptyMap]

\* v is a value of one of ArgKinds; t is the struct type behind it, if any
ToVertex(t, v, labels) ==
    IF typeOfPanics(v)
    THEN [status |-> "panic", labels |-> <<>>, props |-> EmptyMap]
    ELSE IF v.kind = "struct" \/ (kindIsPtr(v) /\ ~numFieldPanics(v))
    THEN [status |-> "ok",
          labels |-> IF Len(labels) > 0 THEN labels ELSE <<TypeName>>,
          props |-> performMap(t, v.vals)]
    ELSE IF kindIsPtr(v)
    THEN [status |-> "panic", labels |-> <<>>, props |-> EmptyMap]
    ELSE [status |-> "err", labels |-> <<>>, props |-> EmptyMap]

NoEdge == [status |-> "none", type |-> "", props |-> EmptyMap]

\* label is a *string: <<>> is nil, <<s>> points to the string s
EdgeLabelArgs_Mapper == { <<>>, <<"">>, <<"L1">> }

ToEdge_EmptyLabelKept(t, v, label) ==
    IF typeOfPanics(v)
    THEN [status |-> "panic", type |-> "", props |-> EmptyMap]
    ELSE IF v.kind = "struct" \/ (kindIsPtr(v) /\ ~numFieldPanics(v))
    THEN [status |-> "ok",
          type |-> IF label = <<>> THEN TypeName ELSE label[1],
          props |-> performMap(t, v.vals)]
    ELSE IF kindIsPtr(v)
    THEN [status |-> "panic", type |-> "", props |-> EmptyMap]
    ELSE [status |-> "err", type |-> "", props |-> EmptyMap]

ToEdge(t, v, label) ==
    IF typeOfPanics(v)
    THEN [status |-> "panic", type |-> "", props |-> EmptyMap]
    ELSE IF v.kind = "struct" \/ (kindIsPtr(v) /\ ~numFieldPanics(v))
    THEN [status |-> "ok",
          type |-> IF label = <<>> THEN TypeName
                   ELSE IF label[1] # "" THEN label[1] ELSE TypeName,
          props |-> performMap(t, v.vals)]
    ELSE IF kindIsPtr(v)
    THEN [status |-> "panic", type |-> "", props |-> EmptyMap]
    ELSE [status |-> "err", type |-> "", props |-> EmptyMap]

\* fieldTagMapping[tag] = Name, field after field
fieldTagMapping(t) ==
    LET last(g) == CHOOSE i \in DOMAIN t :
                       /\ t[i].tag = g
                       /\ \A j \in DOMAIN t : j > i => t[j].tag # g
    IN  [g \in { t[i].tag : i \in DOMAIN t } \ {<<>>} |-> t[last(g)].name]

\* fieldMappingByName: the lower-case, the upper-case and the declared name of
\* each field, field after field; the value is the field's index
RECURSIVE fieldMappingByNameLoop(_, _, _)
fieldMappingByNameLoop(t, i, m) ==
    IF i > Len(t) THEN m
    ELSE fieldMappingByNameLoop(t, i + 1,
             (t[i].name :> i) @@ (ToUpper(t[i].name) :> i)
                 @@ (ToLower(t[i].name) :> i) @@ m)

fieldMappingByName(t) == fieldMappingByNameLoop(t, 1, EmptyMap)

\* the loop over properties, in the order given: mapToDecode[fieldToDecode.Name] = v,
\* or the unknown-field return
RECURSIVE mapToDecodeLoop_SkipUnknown(_, _, _, _, _, _)
mapToDecodeLoop_SkipUnknown(properties, t, byName, byTag, order, m) ==
    IF order = <<>> THEN [unknown |-> FALSE, m |-> m]
    ELSE LET k == Head(order)
         IN  IF k \in DOMAIN byName
             THEN mapToDecodeLoop_SkipUnknown(properties, t, byName, byTag, Tail(order),
                      (t[byName[k]].name :> properties[k]) @@ m)
             ELSE IF k \in DOMAIN byTag
             THEN mapToDecodeLoop_SkipUnknown(properties, t, byName, byTag, Tail(order),
                      (t[byName[byTag[k]]].name :> properties[k]) @@ m)
             ELSE mapToDecodeLoop_SkipUnknown(properties, t, byName, byTag, Tail(order), m)

RECURSIVE mapToDecodeLoop(_, _, _, _, _, _)
mapToDecodeLoop(properties, t, byName, byTag, order, m) ==
    IF order = <<>> THEN [unknown |-> FALSE, m |-> m]
    ELSE LET k == Head(order)
         IN  IF k \in DOMAIN byName
             THEN mapToDecodeLoop(properties, t, byName, byTag, Tail(order),
                      (t[byName[k]].name :> properties[k]) @@ m)
             ELSE IF k \in DOMAIN byTag
             THEN mapToDecodeLoop(properties, t, byName, byTag, Tail(order),
                      (t[byName[byTag[k]]].name :> properties[k]) @@ m)
             ELSE [unknown |-> TRUE, m |-> m]

\* mapstructure.Decode(mapToDecode, v) into a struct of type t holding dst: a
\* field takes the entry under its name, else one under a name equal to it up to
\* case; a value of another kind than the field's is an error and leaves the field
NoKey == <<>>

DecodeSources(m, name) ==
    IF name \in DOMAIN m THEN {name}
    ELSE IF \E k \in DOMAIN m : ToLower(k) = ToLower(name)
    THEN { k \in DOMAIN m : ToLower(k) = ToLower(name) }
    ELSE {NoKey}

\* the first n fields: whether one of them failed, and their values afterwards
RECURSIVE DecodeFields(_, _, _, _)
DecodeFields(m, t, dst, n) ==
    IF n = 0 THEN { [failed |-> FALSE, vals |-> <<>>] }
    ELSE { [failed |-> p.failed \/ (k # NoKey /\ m[k].kind # t[n].kind),
            vals |-> Append(p.vals,
                        IF k # NoKey /\ m[k].kind = t[n].kind THEN m[k] ELSE dst[n])] :
             p \in DecodeFields(m, t, dst, n - 1),
             k \in DecodeSources(m, t[n].name) }

Decode(m, t, dst) ==
    { [ret |-> IF p.failed THEN "error" ELSE "nil", vals |-> p.vals] :
        p \in DecodeFields(m, t, dst, Len(t)) }

\* performDecode that decodes the keys it knows before it returns the error
performDecode_DecodesThenFails(properties, t, dst) ==
    LET byName == fieldMappingByName(t)
        byTag == fieldTagMapping(t)
        loops == { mapToDecodeLoop(properties, t, byName, byTag, o, EmptyMap) :
                     o \in Orders(DOMAIN properties) }
    IN  UNION { IF r.unknown
                THEN { [ret |-> "unknown field", vals |-> d.vals] : d \in Decode(r.m, t, dst) }
                ELSE Decode(r.m, t, dst) : r \in loops }

\* every outcome of performDecode on the properties, for a destination of type t
performDecode(properties, t, dst) ==
    LET byName == fieldMappingByName(t)
        byTag == fieldTagMapping(t)
        loops == { mapToDecodeLoop(properties, t, byName, byTag, o, EmptyMap) :
                     o \in Orders(DOMAIN properties) }
    IN  UNION { IF r.unknown THEN { [ret |-> "unknown field", vals |-> dst] }
                ELSE Decode(r.m, t, dst) : r \in loops }

\* the outcomes of FromVertex and FromEdge share their code but for the name
fromProperties(properties, t, v) ==
    IF typeOfPanics(v) THEN { [ret |-> "panic", vals |-> v.vals] }
    ELSE IF ~kindIsPtr(v) THEN { [ret |-> "error", vals |-> v.vals] }
    ELSE IF v.kind = "ptrscalar" THEN { [ret |-> "error", vals |-> v.vals] }
    ELSE IF v.kind = "nilptr" THEN { [ret |-> "panic", vals |-> v.vals] }
    ELSE performDecode(properties, t, v.vals)

\* v is a value of one of ArgKinds; t is the struct type behind it, if any
FromVertex(vertex, t, v) == fromProperties(vertex.props, t, v)

FromEdge(edge, t, v) == fromProperties(edge.props, t, v)

IsError(ret) == ret \in {"error", "unknown field"}

\* the arguments of ToVertex and of ToEdge: a value of type mtype, by value or by
\* pointer, with every label argument; a value of another kind
ToVertexArgs ==
    ({"struct", "ptr"} \X MapperLabelArgs)
        \cup ((ArgKinds \ {"struct", "ptr"}) \X {<<>>})

ToEdgeArgs ==
    ({"struct", "ptr"} \X EdgeLabelArgs_Mapper)
        \cup ((ArgKinds \ {"struct", "ptr"}) \X {<<>>})

NoArg == [kind |-> "none", labels |-> <<>>]

\* the caller maps its value once, to a vertex or to an edge
Call_ToVertex ==
    /\ subject = "ReflectionMapper"
    /\ mvertex = NoVertex
    /\ medge = NoEdge
    /\ \E a \in ToVertexArgs :
          /\ marg' = [kind |-> a[1], labels |-> a[2]]
          /\ mvertex' = ToVertex(mtype, [kind |-> a[1], vals |-> msrc], a[2])
    /\ mdst' = [kind |-> "ptr", vals |-> ZeroInstance(mtype)]
    /\ mret' = "none"
    /\ UNCHANGED <<builderVars, mtype, msrc, medge, storeVars, callerVars>>

Call_ToEdge ==
    /\ subject = "ReflectionMapper"
    /\ mvertex = NoVertex
    /\ medge = NoEdge
    /\ \E a \in ToEdgeArgs :
          /\ marg' = [kind |-> a[1], labels |-> a[2]]
          /\ medge' = ToEdge(mtype, [kind |-> a[1], vals |-> msrc], a[2])
    /\ mdst' = [kind |-> "ptr", vals |-> ZeroInstance(mtype)]
    /\ mret' = "none"
    /\ UNCHANGED <<builderVars, mtype, msrc, mvertex, storeVars, callerVars>>

Call_FromVertex ==
    /\ subject \in {"ReflectionMapper", "ReflectionMapper.From"}
    /\ mvertex.status = "ok"
    /\ \E r \in FromVertex(mvertex, mtype, mdst) :
          /\ mdst' = [mdst EXCEPT !.vals = r.vals]
          /\ mret' = r.ret
    /\ UNCHANGED <<builderVars, mtype, msrc, marg, mvertex, medge, storeVars, callerVars>>

Call_FromEdge ==
    /\ subject \in {"ReflectionMapper", "ReflectionMapper.From"}
    /\ medge.status = "ok"
    /\ \E r \in FromEdge(medge, mtype, mdst) :
          /\ mdst' = [mdst EXCEPT !.vals = r.vals]
          /\ mret' = r.ret
    /\ UNCHANGED <<builderVars, mtype, msrc, marg, mvertex, medge, storeVars, callerVars>>

NextMapper ==
    \/ Call_ToVertex
    \/ Call_ToEdge
    \/ Call_FromVertex
    \/ Call_FromEdge

\* the properties of a vertex or an edge read from a database: any of these keys,
\* each with its value
GivenValues ==
    (<<"a", "b">> :> [kind |-> "string", text |-> "Tom"])
        @@ (<<"B">> :> [kind |-> "int", text |-> "12"])
        @@ (<<"n">> :> [kind |-> "string", text |-> "Tom"])
        @@ (<<"z">> :> [kind |-> "int", text |-> "12"])

GivenMaps == { [k \in ks |-> GivenValues[k]] : ks \in SUBSET DOMAIN GivenValues }

\* the destinations FromVertex and FromEdge are given: a pointer to a zero value
\* of type t, or a value of another kind
Destinations(t) ==
    { [kind |-> "ptr", vals |-> ZeroInstance(t)] }
        \cup { [kind |-> k, vals |-> <<>>] : k \in ArgKinds \ {"ptr"} }

NextFrom ==
    \/ Call_FromVertex
    \/ Call_FromEdge

-----------------------------------------------------------------------------
(* omg: GenericStore *)

\* a GraphObject as the store sees it: what GetType and GetLabel return, and
\* the kind of Go value behind the interface (a pointer to a struct, or a value
\* of a named non-struct type, which the mapper refuses)
GraphObjectTypes == {"Vertex", "Edge"}
GraphObjects == [gtype : GraphObjectTypes, label : {"person"}, kind : {"ptr", "scalar"}]

\* the nil interface value
Nil == [gtype |-> "nil", label |-> "", kind |-> "nil"]

VertexRelations ==
    [SourceVertex : GraphObjects \cup {Nil},
     Relationship : GraphObjects \cup {Nil},
     DestinationVertex : GraphObjects \cup {Nil}]

\* the struct behind every graph object of kind "ptr", and its value
StoreType == << [name |-> <<"B">>, tag |-> <<"n">>, kind |-> "string"] >>
StoreValue == << [kind |-> "string", text |-> "Tom"] >>

\* gs.mapper.ToVertex(o, []string{o.GetLabel()})
mapperToVertex(o) == ToVertex(StoreType, [kind |-> o.kind, vals |-> StoreValue], <<o.label>>)

\* gs.mapper.ToEdge(o, &relType)
mapperToEdge(o) == ToEdge(StoreType, [kind |-> o.kind, vals |-> StoreValue], <<o.label>>)

\* what the Connection answers: an error or none for a write; an error or a
\* list of entities for a query, each entity with properties the struct has a
\* field for or with a property it has none for
WriteAnswers == {"nil", "error"}
EntityProperties ==
    { performMap(StoreType, StoreValue), (<<"z">> :> [kind |-> "int", text |-> "12"]) }
QueryAnswer(err, entities) == [err |-> err, entities |-> entities]
QueryVertexAnswers ==
    { QueryAnswer("error", <<>>), QueryAnswer("nil", <<>>) }
        \cup { QueryAnswer("nil", <<p>>) : p \in EntityProperties }
QueryEdgeAnswers ==
    { QueryAnswer("error", <<>>), QueryAnswer("nil", <<>>) }
        \cup { QueryAnswer("nil", << [src |-> ps, dst |-> pd, rel |-> pr] >>) :
                 ps \in EntityProperties, pd \in EntityProperties, pr \in EntityProperties }

\* reflect.New(reflect.TypeOf(example).Elem()) filled by FromVertex / FromEdge:
\* the values the mapper can return
fromEntity(properties) ==
    { r.ret : r \in fromProperties(properties, StoreType,
                        [kind |-> "ptr", vals |-> ZeroInstance(StoreType)]) }

Outcome(ret, trace, from) == [ret |-> ret, trace |-> trace, from |-> from]

\* the error return, or the panic, of a mapper call that did not succeed
mapperFailure(status) == IF status = "err" THEN "error" ELSE "panic"

PersistVertex(vertex) ==
    IF vertex = Nil THEN { Outcome("panic", <<>>, <<>>) }
    ELSE IF vertex.gtype # "Vertex" THEN { Outcome("error", <<>>, <<>>) }
    ELSE IF mapperToVertex(vertex).status # "ok"
    THEN { Outcome(mapperFailure(mapperToVertex(vertex).status), <<"ToVertex">>, <<>>) }
    ELSE { Outcome(a, <<"ToVertex", "StoreVertex">>, <<>>) : a \in WriteAnswers }

ReadVertex(exampleVertex) ==
    IF exampleVertex = Nil THEN { Outcome("panic", <<>>, <<>>) }
    ELSE IF exampleVertex.gtype # "Vertex" THEN { Outcome("error", <<>>, <<>>) }
    ELSE IF mapperToVertex(exampleVertex).status # "ok"
    THEN { Outcome(mapperFailure(mapperToVertex(exampleVertex).status), <<"ToVertex">>, <<>>) }
    ELSE UNION {
           IF a.err # "nil" THEN { Outcome("error", <<"ToVertex", "QueryVertex">>, <<>>) }
           ELSE IF a.entities = <<>>
           THEN { Outcome("nil", <<"ToVertex", "QueryVertex">>, <<>>) }
           ELSE { Outcome("nil", <<"ToVertex", "QueryVertex", "FromVertex">>, <<r>>) :
                    r \in fromEntity(a.entities[1]) } :
           a \in QueryVertexAnswers }

PersistEdge_NoRelationCheck(edge) ==
    IF edge.SourceVertex = Nil THEN { Outcome("error", <<>>, <<>>) }
    ELSE IF edge.SourceVertex.gtype # "Vertex" THEN { Outcome("error", <<>>, <<>>) }
    ELSE IF edge.DestinationVertex = Nil THEN { Outcome("panic", <<>>, <<>>) }
    ELSE IF edge.DestinationVertex.gtype # "Vertex" THEN { Outcome("error", <<>>, <<>>) }
    ELSE IF edge.Relationship = Nil THEN { Outcome("panic", <<>>, <<>>) }
    ELSE IF edge.Relationship.gtype # "Edge" THEN { Outcome("error", <<>>, <<>>) }
    ELSE { Outcome(a, <<"ToVertex", "ToVertex", "ToEdge", "StoreEdge">>, <<>>) :
             a \in WriteAnswers }

PersistEdge(edge) ==
    IF edge.SourceVertex = Nil THEN { Outcome("error", <<>>, <<>>) }
    ELSE IF edge.DestinationVertex # Nil /\ edge.Relationship = Nil
    THEN { Outcome("error", <<>>, <<>>) }
    \* edge.SourceVertex.GetType() != Vertex || edge.DestinationVertex.GetType() != Vertex
    ELSE IF edge.SourceVertex.gtype # "Vertex" THEN { Outcome("error", <<>>, <<>>) }
    ELSE IF edge.DestinationVertex = Nil THEN { Outcome("panic", <<>>, <<>>) }
    ELSE IF edge.DestinationVertex.gtype # "Vertex" THEN { Outcome("error", <<>>, <<>>) }
    \* edge.Relationship.GetType() != Edge
    ELSE IF edge.Relationship = Nil THEN { Outcome("panic", <<>>, <<>>) }
    ELSE IF edge.Relationship.gtype # "Edge" THEN { Outcome("error", <<>>, <<>>) }
    ELSE IF mapperToVertex(edge.SourceVertex).status # "ok"
    THEN { Outcome(mapperFailure(mapperToVertex(edge.SourceVertex).status),
                   <<"ToVertex">>, <<>>) }
    ELSE IF mapperToVertex(edge.DestinationVertex).status # "ok"
    THEN { Outcome(mapperFailure(mapperToVertex(edge.DestinationVertex).status),
                   <<"ToVertex", "ToVertex">>, <<>>) }
    ELSE IF mapperToEdge(edge.Relationship).status # "ok"
    THEN { Outcome(mapperFailure(mapperToEdge(edge.Relationship).status),
                   <<"ToVertex", "ToVertex", "ToEdge">>, <<>>) }
    ELSE { Outcome(a, <<"ToVertex", "ToVertex", "ToEdge", "StoreEdge">>, <<>>) :
             a \in WriteAnswers }

ReadEdge_RelationOptional(exampleEdge) ==
    IF \/ exampleEdge.SourceVertex = Nil
       \/ exampleEdge.DestinationVertex = Nil
    THEN { Outcome("error", <<>>, <<>>) }
    ELSE IF exampleEdge.Relationship = Nil
    THEN { Outcome("nil", <<"ToVertex", "ToVertex", "QueryEdge">>, <<>>) }
    ELSE { Outcome("nil", <<"ToVertex", "ToVertex", "ToEdge", "QueryEdge">>, <<>>) }

ReadEdge(exampleEdge) ==
    IF \/ exampleEdge.SourceVertex = Nil
       \/ exampleEdge.DestinationVertex = Nil
       \/ exampleEdge.Relationship = Nil
    THEN { Outcome("error", <<>>, <<>>) }
    ELSE IF mapperToVertex(exampleEdge.SourceVertex).status # "ok"
    THEN { Outcome(mapperFailure(mapperToVertex(exampleEdge.SourceVertex).status),
                   <<"ToVertex">>, <<>>) }
    ELSE IF mapperToVertex(exampleEdge.DestinationVertex).status # "ok"
    THEN { Outcome(mapperFailure(mapperToVertex(exampleEdge.DestinationVertex).status),
                   <<"ToVertex", "ToVertex">>, <<>>) }
    ELSE IF mapperToEdge(exampleEdge.Relationship).status # "ok"
    THEN { Outcome(mapperFailure(mapperToEdge(exampleEdge.Relationship).status),
                   <<"ToVertex", "ToVertex", "ToEdge">>, <<>>) }
    ELSE UNION {
           IF a.err # "nil"
           THEN { Outcome("error", <<"ToVertex", "ToVertex", "ToEdge", "QueryEdge">>, <<>>) }
           ELSE IF a.entities = <<>>
           THEN { Outcome("nil", <<"ToVertex", "ToVertex", "ToEdge", "QueryEdge">>, <<>>) }
           ELSE { Outcome("nil",
                          <<"ToVertex", "ToVertex", "ToEdge", "QueryEdge",
                            "FromVertex", "FromVertex", "FromEdge">>,
                          <<rs, rd, rr>>) :
                    rs \in fromEntity(a.entities[1].src),
                    rd \in fromEntity(a.entities[1].dst),
                    rr \in fromEntity(a.entities[1].rel) } :
           a \in QueryEdgeAnswers }

NoRequest == [op |-> "none", vertex |-> Nil,
              edge |-> [SourceVertex |-> Nil, Relationship |-> Nil, DestinationVertex |-> Nil]]

VertexRequest(op, vertex) == [NoRequest EXCEPT !.op = op, !.vertex = vertex]
EdgeRequest(op, edge) == [NoRequest EXCEPT !.op = op, !.edge = edge]

Call_PersistVertex ==
    /\ subject = "GenericStore"
    /\ \E vertex \in GraphObjects \cup {Nil} : \E o \in PersistVertex(vertex) :
          /\ sreq' = VertexRequest("PersistVertex", vertex)
          /\ sret' = o.ret /\ strace' = o.trace /\ sfrom' = o.from
    /\ UNCHANGED <<builderVars, mapperVars, callerVars>>

Call_ReadVertex ==
    /\ subject = "GenericStore"
    /\ \E exampleVertex \in GraphObjects \cup {Nil} : \E o \in ReadVertex(exampleVertex) :
          /\ sreq' = VertexRequest("ReadVertex", exampleVertex)
          /\ sret' = o.ret /\ strace' = o.trace /\ sfrom' = o.from
    /\ UNCHANGED <<builderVars, mapperVars, callerVars>>

Call_PersistEdge ==
    /\ subject = "GenericStore"
    /\ \E edge \in VertexRelations : \E o \in PersistEdge(edge) :
          /\ sreq' = EdgeRequest("PersistEdge", edge)
          /\ sret' = o.ret /\ strace' = o.trace /\ sfrom' = o.from
    /\ UNCHANGED <<builderVars, mapperVars, callerVars>>

Call_ReadEdge ==
    /\ subject = "GenericStore"
    /\ \E exampleEdge \in VertexRelations : \E o \in ReadEdge(exampleEdge) :
          /\ sreq' = EdgeRequest("ReadEdge", exampleEdge)
          /\ sret' = o.ret /\ strace' = o.trace /\ sfrom' = o.from
    /\ UNCHANGED <<builderVars, mapperVars, callerVars>>

NextStore ==
    \/ Call_PersistVertex
    \/ Call_ReadVertex
    \/ Call_PersistEdge
    \/ Call_ReadEdge

-----------------------------------------------------------------------------
(* Specifications *)

\* no mapper call is under way
MapperIdle ==
    /\ mtype = <<>>
    /\ msrc = <<>>
    /\ marg = NoArg
    /\ mvertex = NoVertex
    /\ medge = NoEdge
    /\ mdst = [kind |-> "ptr", vals |-> <<>>]
    /\ mret = "none"

\* no store operation has been called
StoreIdle ==
    /\ sreq = NoRequest
    /\ sret = "none"
    /\ strace = <<>>
    /\ sfrom = <<>>

\* no caller keeps a map it passed
CallerIdle ==
    /\ cmap = EmptyMap
    /\ heap = NewHeap

InitVertex ==
    /\ subject = "VertexQueryBuilder"
    /\ calls = 0
    /\ vqb = NewVertexQueryBuilder
    /\ vres = NoResult
    /\ eqb = NewEdgeQueryBuilder
    /\ eres = NoResult
    /\ rin = NoRenderCall
    /\ rout = <<>>
    /\ MapperIdle
    /\ StoreIdle
    /\ CallerIdle

SpecVertex == InitVertex /\ [][NextVertex]_vars

InitEdge ==
    /\ subject = "EdgeQueryBuilder"
    /\ calls = 0
    /\ vqb = NewVertexQueryBuilder
    /\ vres = NoResult
    /\ eqb = NewEdgeQueryBuilder
    /\ eres = NoResult
    /\ rin = NoRenderCall
    /\ rout = <<>>
    /\ MapperIdle
    /\ StoreIdle
    /\ CallerIdle

SpecEdge == InitEdge /\ [][NextEdge]_vars

\* a call of a renderer on any variable name and any map over Keys
InitRender ==
    /\ subject = "Renderer"
    /\ calls = 0
    /\ vqb = NewVertexQueryBuilder
    /\ vres = NoResult
    /\ eqb = NewEdgeQueryBuilder
    /\ eres = NoResult
    /\ rin \in [fn : {"none"}, varName : RenderVarNames, m : KVMaps(Keys)]
    /\ rout = <<>>
    /\ MapperIdle
    /\ StoreIdle
    /\ CallerIdle

SpecRender == InitRender /\ [][NextRender]_vars

\* a struct type, a value of it (or a pointer to one) and a zero-valued
\* destination of the same type
InitMapper ==
    /\ subject = "ReflectionMapper"
    /\ calls = 0
    /\ vqb = NewVertexQueryBuilder
    /\ vres = NoResult
    /\ eqb = NewEdgeQueryBuilder
    /\ eres = NoResult
    /\ rin = NoRenderCall
    /\ rout = <<>>
    /\ mtype \in StructTypes
    /\ msrc \in Instances(mtype)
    /\ marg = NoArg
    /\ mvertex = NoVertex
    /\ medge = NoEdge
    /\ mdst = [kind |-> "ptr", vals |-> ZeroInstance(mtype)]
    /\ mret = "none"
    /\ StoreIdle
    /\ CallerIdle

SpecMapper == InitMapper /\ [][NextMapper]_vars

\* a vertex or an edge read from a database, and a destination for it; the
\* destinations that are no pointer to a struct go with the types of one field
InitFrom ==
    /\ subject = "ReflectionMapper.From"
    /\ calls = 0
    /\ vqb = NewVertexQueryBuilder
    /\ vres = NoResult
    /\ eqb = NewEdgeQueryBuilder
    /\ eres = NoResult
    /\ rin = NoRenderCall
    /\ rout = <<>>
    /\ mtype \in StructTypes
    /\ msrc = <<>>
    /\ marg = NoArg
    /\ \E properties \in GivenMaps :
          \/ /\ mvertex = [status |-> "ok", labels |-> <<TypeName>>, props |-> properties]
             /\ medge = NoEdge
          \/ /\ mvertex = NoVertex
             /\ medge = [status |-> "ok", type |-> TypeName, props |-> properties]
    /\ mdst \in Destinations(mtype)
    /\ mdst.kind # "ptr" => Len(mtype) = 1
    /\ mret = "none"
    /\ StoreIdle
    /\ CallerIdle

SpecFrom == InitFrom /\ [][NextFrom]_vars

\* NewGenericStore(connection, mapper), no operation called yet
InitStore ==
    /\ subject = "GenericStore"
    /\ calls = 0
    /\ vqb = NewVertexQueryBuilder
    /\ vres = NoResult
    /\ eqb = NewEdgeQueryBuilder
    /\ eres = NoResult
    /\ rin = NoRenderCall
    /\ rout = <<>>
    /\ MapperIdle
    /\ StoreIdle
    /\ CallerIdle

SpecStore == InitStore /\ [][NextStore]_vars

\* the program constructs one builder and uses it
InitBuilders == InitVertex \/ InitEdge

NextBuilders == NextVertex \/ NextEdge

SpecBuilders == InitBuilders /\ [][NextBuilders]_vars

-----------------------------------------------------------------------------
(* A data store that returns the property names in one case *)

Cases == {"lower", "upper"}

InCase(k, c) == IF c = "lower" THEN ToLower(k) ELSE ToUpper(k)

\* the properties with every key in the case c; two keys that become one keep
\* one of their values
KeysInCase(props, c) ==
    [k \in { InCase(x, c) : x \in DOMAIN props } |->
        props[CHOOSE x \in DOMAIN props : InCase(x, c) = k]]

\* the vertex ToVertex returned is stored and read back; the store answers with
\* the keys in its case, when that keeps them apart
Database_NormaliseKeys == \E c \in Cases :
    /\ subject = "ReflectionMapper"
    /\ mvertex.status = "ok"
    /\ mret = "none"
    /\ \A x, y \in DOMAIN mvertex.props : InCase(x, c) = InCase(y, c) => x = y
    /\ mvertex' = [mvertex EXCEPT !.props = KeysInCase(mvertex.props, c)]
    /\ UNCHANGED <<builderVars, mtype, msrc, marg, medge, mdst, mret, storeVars, callerVars>>

NextCase ==
    \/ Call_ToVertex
    \/ Database_NormaliseKeys
    \/ Call_FromVertex

SpecCase == InitMapper /\ [][NextCase]_vars

-----------------------------------------------------------------------------
(* A caller that keeps the map it passed to a builder *)

\* the maps a caller makes before it passes one; a value is a string or a slice
CallerMaps ==
    { ("name" :> [kind |-> "string", text |-> "Tom"]),
      ("name" :> [kind |-> "slice", text |-> "s1"]),
      ("name" :> [kind |-> "string", text |-> "Tom"])
          @@ ("age" :> [kind |-> "slice", text |-> "s1"]) }

CallerValues == { [kind |-> "string", text |-> "10"] } \cup SliceValues

VertexMapFields == {"selector", "filters"}

EdgeMapFields ==
    {"startVertexSelector", "endVertexSelector", "selector",
     "filters", "startVertexFilters", "endVertexFilters"}

\* the caller has passed its map to the builder in use
Passed ==
    \/ subject = "VertexQueryBuilder" /\ \E f \in VertexMapFields : vqb[f] # EmptyMap
    \/ subject = "EdgeQueryBuilder" /\ \E f \in EdgeMapFields : eqb[f] # EmptyMap

\* vqb.SetSelector(m) or vqb.SetFilters(m) with the map m the caller holds
Caller_PassToVertexBuilder == \E site \in VertexMapFields :
    /\ ~Passed
    /\ VertexSetter([vqb EXCEPT ![site] = CopyInto(vqb[site], cmap)])

\* one of the six map setters of the edge builder with the map m the caller holds
Caller_PassToEdgeBuilder == \E site \in EdgeMapFields :
    /\ ~Passed
    /\ EdgeSetter([eqb EXCEPT ![site] = CopyInto(eqb[site], cmap)])

\* a statement of the caller after the setter returned
CallerStep ==
    /\ Passed
    /\ UNCHANGED <<builderVars, mapperVars, storeVars>>

\* m[k] = v
Caller_Put == \E k \in BuilderKeys, v \in CallerValues :
    /\ CallerStep
    /\ cmap' = (k :> v) @@ cmap
    /\ UNCHANGED heap

\* delete(m, k)
Caller_Delete == \E k \in DOMAIN cmap :
    /\ CallerStep
    /\ cmap' = [x \in DOMAIN cmap \ {k} |-> cmap[x]]
    /\ UNCHANGED heap

\* m[k].([]string)[0] = "b": the element of a slice the map holds is overwritten
Caller_MutateValue == \E k \in DOMAIN cmap, t \in SliceTexts :
    /\ CallerStep
    /\ cmap[k].kind = "slice"
    /\ heap' = [heap EXCEPT ![cmap[k].text] = t]
    /\ UNCHANGED cmap

NextCaller ==
    \/ VQB_SetLabel
    \/ EQB_SetLabel
    \/ EQB_SetStartVertexVariableName
    \/ EQB_SetEndVertexVariableName
    \/ Caller_PassToVertexBuilder
    \/ Caller_PassToEdgeBuilder
    \/ Caller_Put
    \/ Caller_Delete
    \/ Caller_MutateValue
    \/ VQB_BuildCall
    \/ EQB_BuildCall

\* a new builder and a caller holding a map it made
InitCaller ==
    /\ subject \in {"VertexQueryBuilder", "EdgeQueryBuilder"}
    /\ calls = 0
    /\ vqb = NewVertexQueryBuilder
    /\ vres = NoResult
    /\ eqb = NewEdgeQueryBuilder
    /\ eres = NoResult
    /\ rin = NoRenderCall
    /\ rout = <<>>
    /\ MapperIdle
    /\ StoreIdle
    /\ cmap \in CallerMaps
    /\ heap = NewHeap

SpecCaller == InitCaller /\ [][NextCaller]_vars

-----------------------------------------------------------------------------
(* Reading a rendered text back *)

Range(s) == { s[i] : i \in DOMAIN s }

\* the first position >= from holding the token t; 0 when there is none
IndexFrom(q, t, from) ==
    IF \E i \in from..Len(q) : q[i] = t
    THEN CHOOSE i \in from..Len(q) : q[i] = t /\ \A j \in from..(i - 1) : q[j] # t
    ELSE 0

\* the tokens after position i, up to the next token close
Upto(q, i, close) == SubSeq(q, i + 1, IndexFrom(q, close, i + 1) - 1)

RECURSIVE Split(_, _)
Split(s, sep) ==
    IF s = <<>> THEN <<>>
    ELSE IF IndexFrom(s, sep, 1) = 0 THEN <<s>>
    ELSE <<SubSeq(s, 1, IndexFrom(s, sep, 1) - 1)>>
         \o Split(SubSeq(s, IndexFrom(s, sep, 1) + 1, Len(s)), sep)

\* (var:label...{selector}) of the first node, [var:label{selector}] and the node
\* after the relationship
FirstNode(q) == Upto(q, IndexFrom(q, "(", 1), ")")
Relationship(q) == Upto(q, IndexFrom(q, "-[", 1), "]-")
SecondNode(q) == Upto(q, IndexFrom(q, "]-", 1) + 1, ")")

PatternVar(p) == p[1]

\* the tokens between the variable and the selector
PatternLabels(p) ==
    IF IndexFrom(p, "{", 1) = 0 THEN SubSeq(p, 2, Len(p))
    ELSE SubSeq(p, 2, IndexFrom(p, "{", 1) - 1)

ReturnClause(q) == SubSeq(q, IndexFrom(q, "return ", 1) + 1, Len(q))

\* the conjuncts of the WHERE clause
Conjuncts(q) ==
    IF IndexFrom(q, " WHERE ", 1) = 0 THEN <<>>
    ELSE Split(SubSeq(q, IndexFrom(q, " WHERE ", 1) + 1,
                         IndexFrom(q, "return ", 1) - 2), " AND ")

\* variable.key=value, a string value in single quotes
Conjunct(variable, key, value) ==
    IF value.kind = "string"
    THEN <<variable, ".", key, "='", value.text, "'">>
    ELSE <<variable, ".", key, "=", value.text>>

\* the first two characters of a label, lower-cased
TwoLower(label) == ToLowerChar(label[1]) \o ToLowerChar(label[2])

LabelSegments(labels) == Concat([i \in 1..Len(labels) |-> <<":", Join(labels[i])>>])

-----------------------------------------------------------------------------
(* Claims *)

\* C1: for every non-empty label list, whatever the length of each label and
\* with or without an explicit variable name, VertexQueryBuilder.Build returns a
\* query that begins with MATCH in Read mode, MERGE in Write mode when the write
\* mode is not Create, and CREATE in Write mode when the write mode is Create.
C1_KeywordForEveryLabelList ==
    (vres.status # "none" /\ Len(vqb.labels) > 0) =>
        /\ vres.status = "ok"
        /\ Head(vres.query) =
              (IF vqb.queryMode = Read THEN "MATCH"
               ELSE IF vqb.writeMode = Create THEN "CREATE" ELSE "MERGE")

\* C2: whenever a validation rule is violated, Build returns an error together
\* with the empty query string: the vertex builder with no label; the edge
\* builder with zero or with two or more edge labels, or with an endpoint that
\* has neither a label nor a variable name.
C2_ValidationErrorNoText ==
    /\ (vres.status # "none" /\ Len(vqb.labels) = 0) =>
          (vres.status = "err" /\ vres.err # "" /\ Join(vres.query) = "")
    /\ (/\ eres.status # "none"
        /\ \/ Len(eqb.labels) = 0
           \/ Len(eqb.labels) >= 2
           \/ (Len(eqb.startVertexLabels) = 0 /\ eqb.startVertexVarName = "")
           \/ (Len(eqb.endVertexLabels) = 0 /\ eqb.endVertexVarName = "")) =>
          (eres.status = "err" /\ eres.err # "" /\ Join(eres.query) = "")

C2_Witness ==
    /\ eres.status = "err"
    /\ Len(eqb.labels) >= 2
    /\ Len(eqb.startVertexLabels) > 0
    /\ eqb.endVertexVarName # ""

\* C3: in every edge query built from a state that passes validation, the
\* predicate holds, for each binding site (start vertex, end vertex, edge) and
\* each key k with value v of that site's filter map, the conjunct
\* <site variable>.k=v, and the number of conjuncts is the sum of the sizes of
\* the three filter maps.
C3_EverySiteFilterRendered ==
    eres.status = "ok" =>
        LET q == eres.query
            sites == << <<PatternVar(FirstNode(q)), eqb.startVertexFilters>>,
                        <<PatternVar(SecondNode(q)), eqb.endVertexFilters>>,
                        <<PatternVar(Relationship(q)), eqb.filters>> >>
        IN  /\ \A i \in 1..3 : \A k \in DOMAIN sites[i][2] :
                   Conjunct(sites[i][1], k, sites[i][2][k]) \in Range(Conjuncts(q))
            /\ Len(Conjuncts(q)) =
                   Cardinality(DOMAIN eqb.startVertexFilters)
                   + Cardinality(DOMAIN eqb.endVertexFilters)
                   + Cardinality(DOMAIN eqb.filters)

\* C4: in every successfully built edge query the return clause names exactly
\* the edge variable when the fetch mode is EdgeWithVertexIds, and the start
\* variable, the edge variable and the end variable, in that order, when it is
\* EdgeWithCompleteVertex.
C4_ReturnClauseByFetchMode ==
    eres.status = "ok" =>
        LET q == eres.query
            sv == PatternVar(FirstNode(q))
            ev == PatternVar(Relationship(q))
            dv == PatternVar(SecondNode(q))
        IN  /\ eqb.edgeFetchMode = EdgeWithVertexIds => ReturnClause(q) = <<ev>>
            /\ eqb.edgeFetchMode = EdgeWithCompleteVertex =>
                   ReturnClause(q) = <<sv, ", ", ev, ", ", dv>>

C4_Witness ==
    /\ eres.status = "ok"
    /\ eqb.edgeFetchMode = EdgeWithCompleteVertex
    /\ LET q == eres.query
       IN  /\ PatternVar(FirstNode(q)) # PatternVar(Relationship(q))
           /\ PatternVar(FirstNode(q)) # PatternVar(SecondNode(q))
           /\ PatternVar(Relationship(q)) # PatternVar(SecondNode(q))

C9_LabelSegmentsInOrder ==
    /\ (vres.status = "ok" /\ Len(vqb.labels) >= 2) =>
          PatternLabels(FirstNode(vres.query)) = LabelSegments(vqb.labels)
    /\ (eres.status = "ok" /\ Len(eqb.startVertexLabels) >= 2) =>
          PatternLabels(FirstNode(eres.query)) = LabelSegments(eqb.startVertexLabels)
    /\ (eres.status = "ok" /\ Len(eqb.endVertexLabels) >= 2) =>
          PatternLabels(SecondNode(eres.query)) = LabelSegments(eqb.endVertexLabels)

C9_Witness ==
    /\ vres.status = "ok"
    /\ vqb.labels = <<Cit, Per, PET>>
    /\ Cardinality(DOMAIN vqb.selector) = 2

\* C7: for every filter map with N >= 2 keys bound to a variable v, the
\* rendered predicate is exactly N conjuncts joined by " AND ", one per key, each
\* of the form v.key=value with a string value in single quotes; the set of
\* conjuncts is the set of map entries, whatever the order.
C7_PredicateConjuncts ==
    (rin.fn = "buildFilterConditions" /\ Cardinality(DOMAIN rin.m) >= 2) =>
        LET cs == Split(rout, " AND ")
            n == Cardinality(DOMAIN rin.m)
        IN  /\ Len(cs) = n
            /\ Cardinality({ i \in DOMAIN rout : rout[i] = " AND " }) = n - 1
            /\ Range(cs) = { Conjunct(rin.varName, k, rin.m[k]) : k \in DOMAIN rin.m }

C7_Witness ==
    /\ rin.fn = "buildFilterConditions"
    /\ DOMAIN rin.m = Keys
    /\ \E k \in Keys : rin.m[k].kind = "string"
    /\ \E k \in Keys : rin.m[k].kind = "int"
    /\ Len(rout) > 0

\* key:'value' for a string value, key: value (the %v text, no quotes) otherwise
SelectorEntry(key, value) ==
    IF value.kind = "string"
    THEN <<key, ":'", value.text, "'">>
    ELSE <<key, ": ", value.text>>

\* C8: for every selector map, an entry whose value is a string is rendered
\* with the value in single quotes and an entry of any other scalar type with the
\* value's default text and no quotes; an empty selector map renders to the
\* empty string, with no braces.
C8_SelectorQuoting ==
    rin.fn = "buildSelector" =>
        IF DOMAIN rin.m = {} THEN Join(rout) = ""
        ELSE /\ Head(rout) = "{"
             /\ rout[Len(rout)] = "}"
             /\ LET es == Split(SubSeq(rout, 2, Len(rout) - 1), ",")
                IN  /\ Len(es) = Cardinality(DOMAIN rin.m)
                    /\ Range(es) = { SelectorEntry(k, rin.m[k]) : k \in DOMAIN rin.m }

C8_Witness ==
    /\ rin.fn = "buildSelector"
    /\ \E k \in DOMAIN rin.m : rin.m[k] = [kind |-> "string", text |-> "10"]
    /\ \E k \in DOMAIN rin.m : rin.m[k] = [kind |-> "int", text |-> "10"]
    /\ Len(rout) > 0

\* C10: for a flat struct type whose fields all carry a non-empty ogm tag,
\* with any tag strings and any field names, and any instance x of it, ToVertex(x)
\* followed by FromVertex into a zero-valued instance of the same type returns
\* no error and leaves that instance equal to x.
C10_TaggedRoundTrip ==
    (mret # "none" /\ \A i \in DOMAIN mtype : mtype[i].tag # <<>>) =>
        (mret = "nil" /\ mdst.vals = msrc)

\* what the claims say of a struct type, in their own words
FieldNamesOf(t) == { t[i].name : i \in DOMAIN t }

Untagged(t) == \A i \in DOMAIN t : t[i].tag = <<>>

\* the key the documentation gives a field: its tag when present and non-empty,
\* otherwise its name
DocumentedKey(f) == IF f.tag = <<>> THEN f.name ELSE f.tag

\* C11: for a flat struct type with no tags, ToVertex uses each field name
\* verbatim as its property key, and ToVertex followed by FromVertex into a
\* zero-valued instance of the same type returns no error and yields an instance
\* equal to the original; likewise ToEdge followed by FromEdge.
C11_UntaggedRoundTrip ==
    Untagged(mtype) =>
        /\ mvertex.status = "ok" => DOMAIN mvertex.props = FieldNamesOf(mtype)
        /\ medge.status = "ok" => DOMAIN medge.props = FieldNamesOf(mtype)
        /\ mret # "none" => (mret = "nil" /\ mdst.vals = msrc)

\* C12: ToVertex and ToEdge map every struct field to a property: for each field
\* the returned property map holds, under the field's ogm tag when it has a
\* non-empty one and under the field's name otherwise, the field's value.
C12_EveryFieldMapped ==
    /\ mvertex.status = "ok" =>
          \A i \in DOMAIN mtype :
              /\ DocumentedKey(mtype[i]) \in DOMAIN mvertex.props
              /\ mvertex.props[DocumentedKey(mtype[i])] = msrc[i]
    /\ medge.status = "ok" =>
          \A i \in DOMAIN mtype :
              /\ DocumentedKey(mtype[i]) \in DOMAIN medge.props
              /\ medge.props[DocumentedKey(mtype[i])] = msrc[i]

\* C13: ToVertex and ToEdge return an error, and no vertex or edge, for every
\* input that is neither a struct nor a pointer to a struct: a pointer to a
\* non-struct value, a nil value, a scalar.
C13_NonStructRejected ==
    marg.kind \in {"ptrscalar", "nil", "scalar"} =>
        /\ mvertex.status \in {"none", "err"}
        /\ medge.status \in {"none", "err"}
        /\ mvertex.props = EmptyMap /\ medge.props = EmptyMap

\* C14: FromVertex and FromEdge return an error when the destination is not a
\* pointer (a struct value, a scalar, the nil value) and when it is a pointer to
\* a non-struct type.
C14_BadDestinationRejected ==
    (mret # "none" /\ mdst.kind \in {"struct", "scalar", "nil", "ptrscalar"}) =>
        IsError(mret)

\* C15: FromVertex and FromEdge, given a pointer to a struct, return the
\* "unknown field" error whenever the property map has a key that is neither a
\* destination field's name (as declared, in upper case or in lower case) nor a
\* destination field's ogm tag.
KnownKeys(t) ==
    UNION { {t[i].name, ToUpper(t[i].name), ToLower(t[i].name)} : i \in DOMAIN t }
        \cup ({ t[i].tag : i \in DOMAIN t } \ {<<>>})

GivenProperties == IF mvertex.status = "ok" THEN mvertex.props ELSE medge.props

C15_UnknownFieldError ==
    (/\ mret # "none"
     /\ mdst.kind = "ptr"
     /\ \E k \in DOMAIN GivenProperties : k \notin KnownKeys(mtype))
        => mret = "unknown field"

C15_Witness ==
    /\ mret = "unknown field"
    /\ medge.status = "ok"
    /\ mdst.kind = "ptr"
    /\ Len(mtype) = 2
    /\ <<"z">> \in DOMAIN medge.props
    /\ <<"B">> \in DOMAIN medge.props /\ <<"B">> \in KnownKeys(mtype)

\* C16: ToVertex uses the caller's label list as it is when it is non-empty and
\* the struct's type name as the single label otherwise; ToEdge uses the caller's
\* label when it is non-nil and non-empty and the struct's type name when it is
\* nil or the empty string; for a struct value and for a pointer to a struct.
C16_LabelResolution ==
    /\ mvertex.status = "ok" =>
          mvertex.labels = IF marg.labels # <<>> THEN marg.labels ELSE <<TypeName>>
    /\ medge.status = "ok" =>
          medge.type = IF marg.labels \in {<<>>, <<"">>} THEN TypeName
                       ELSE marg.labels[1]

C16_Witness ==
    /\ medge.status = "ok"
    /\ marg = [kind |-> "ptr", labels |-> <<"">>]
    /\ medge.type = TypeName
    /\ Len(mtype) = 2

\* what the claims say of a store operation, in their own words
ConnectionMethods == {"StoreVertex", "StoreEdge", "QueryVertex", "QueryEdge"}
MapperMethods == {"ToVertex", "ToEdge", "FromVertex", "FromEdge"}

Called(methods) == \E i \in DOMAIN strace : strace[i] \in methods

Present(o) == o # Nil

\* C17: PersistEdge given a relation that has a source vertex of kind Vertex and
\* neither destination vertex nor relationship passes validation and is handled
\* as an isolated-vertex write of the source: it does not abort, it does not
\* return a validation error, and it goes on to map and write the source.
C17_SourceOnlyPersist ==
    (/\ sreq.op = "PersistEdge"
     /\ Present(sreq.edge.SourceVertex) /\ sreq.edge.SourceVertex.gtype = "Vertex"
     /\ ~Present(sreq.edge.DestinationVertex)
     /\ ~Present(sreq.edge.Relationship))
        => /\ sret # "panic"
           /\ Called({"ToVertex"})
           /\ sret = "nil" => Called(ConnectionMethods)

\* C18: PersistEdge returns an error, without calling the mapper or the
\* Connection, when the relation's source vertex is absent, and when source and
\* destination are both present but the relationship is absent.
C18_PersistEdgeValidation ==
    (/\ sreq.op = "PersistEdge"
     /\ \/ ~Present(sreq.edge.SourceVertex)
        \/ /\ Present(sreq.edge.SourceVertex)
           /\ Present(sreq.edge.DestinationVertex)
           /\ ~Present(sreq.edge.Relationship))
        => (sret = "error" /\ ~Called(MapperMethods \cup ConnectionMethods))

C18_Witness ==
    /\ sreq.op = "PersistEdge"
    /\ Present(sreq.edge.SourceVertex) /\ sreq.edge.SourceVertex.gtype = "Vertex"
    /\ Present(sreq.edge.DestinationVertex) /\ sreq.edge.DestinationVertex.gtype = "Vertex"
    /\ ~Present(sreq.edge.Relationship)
    /\ sret = "error"
    /\ strace = <<>>

TypeMismatch ==
    \/ /\ sreq.op \in {"PersistVertex", "ReadVertex"}
       /\ Present(sreq.vertex) /\ sreq.vertex.gtype = "Edge"
    \/ /\ sreq.op \in {"PersistEdge", "ReadEdge"}
       /\ \/ Present(sreq.edge.SourceVertex) /\ sreq.edge.SourceVertex.gtype = "Edge"
          \/ Present(sreq.edge.DestinationVertex)
                /\ sreq.edge.DestinationVertex.gtype = "Edge"
          \/ Present(sreq.edge.Relationship) /\ sreq.edge.Relationship.gtype = "Vertex"

C20_TypeMismatchRejected ==
    TypeMismatch => (sret = "error" /\ ~Called(ConnectionMethods))

\* C21: no mapping error is swallowed by the store: when FromVertex or FromEdge
\* fails on an entity the Connection returned during ReadVertex or ReadEdge, the
\* operation returns an error to its caller instead of a result list.
C21_MappingErrorSurfaced ==
    (/\ sreq.op \in {"ReadVertex", "ReadEdge"}
     /\ \E i \in DOMAIN sfrom : IsError(sfrom[i]))
        => sret = "error"

\* what the claims say of the builders' maps, in their own words
VertexMapSites == {"selector", "filters"}
EdgeMapSites ==
    {"selector", "filters", "startVertexSelector", "endVertexSelector",
     "startVertexFilters", "endVertexFilters"}

\* the union of two maps, the later one winning on a key they share
UnionLatest(earlier, later) ==
    [k \in DOMAIN earlier \cup DOMAIN later |->
        IF k \in DOMAIN later THEN later[k] ELSE earlier[k]]

\* from builder b to builder b2 the map of the site has taken in one of the
\* maps of the pool, and the maps of the other sites are as they were
Accumulates(b, b2, site, sites, pool) ==
    /\ \E m \in pool : b2[site] = UnionLatest(b[site], m)
    /\ \A other \in sites \ {site} : b2[other] = b[other]

\* C22: a builder's maps start empty, a map changes only in a call of the setter
\* of its site, and that call leaves in it the union of the map and the map
\* passed, the map passed winning on a repeated key, and leaves every other map
\* of the builder unchanged; so after any sequence of calls each map is the
\* union of the maps passed for its site, the latest call winning.
C22_MapsAccumulate ==
    /\ \A site \in VertexMapSites : vqb[site] = EmptyMap
    /\ \A site \in EdgeMapSites : eqb[site] = EmptyMap
    /\ [][/\ vqb'.selector # vqb.selector =>
                /\ VQB_SetSelector
                /\ Accumulates(vqb, vqb', "selector", VertexMapSites, VertexMapArgs)
          /\ vqb'.filters # vqb.filters =>
                /\ VQB_SetFilters
                /\ Accumulates(vqb, vqb', "filters", VertexMapSites, VertexMapArgs)
          /\ eqb'.selector # eqb.selector =>
                /\ EQB_SetSelector
                /\ Accumulates(eqb, eqb', "selector", EdgeMapSites, EdgeMapArgs)
          /\ eqb'.filters # eqb.filters =>
                /\ EQB_SetFilters
                /\ Accumulates(eqb, eqb', "filters", EdgeMapSites, EdgeMapArgs)
          /\ eqb'.startVertexSelector # eqb.startVertexSelector =>
                /\ EQB_SetStartVertexSelector
                /\ Accumulates(eqb, eqb', "startVertexSelector", EdgeMapSites, EdgeMapArgs)
          /\ eqb'.endVertexSelector # eqb.endVertexSelector =>
                /\ EQB_SetEndVertexSelector
                /\ Accumulates(eqb, eqb', "endVertexSelector", EdgeMapSites, EdgeMapArgs)
          /\ eqb'.startVertexFilters # eqb.startVertexFilters =>
                /\ EQB_SetStartVertexFilters
                /\ Accumulates(eqb, eqb', "startVertexFilters", EdgeMapSites, EdgeMapArgs)
          /\ eqb'.endVertexFilters # eqb.endVertexFilters =>
                /\ EQB_SetEndVertexFilters
                /\ Accumulates(eqb, eqb', "endVertexFilters", EdgeMapSites, EdgeMapArgs)]_vars

\* two calls have filled the edge selector, the later one winning on "name"
C22_Witness ==
    /\ subject = "EdgeQueryBuilder"
    /\ DOMAIN eqb.selector = {"name", "age"}
    /\ eqb.selector["name"] \in StringValues
    /\ eqb.selector["age"] \in StringValues
    /\ eqb.filters = EmptyMap


\* every outcome Build can have now on the builder in use
BuildOutcomes ==
    IF subject = "VertexQueryBuilder" THEN VQB_Build(vqb) ELSE EQB_Build(eqb)

\* C23: a change the caller makes to the map it passed to a setter (a key
\* added, overwritten or removed, or a value held in the map mutated) leaves
\* the outcomes of Build as they were.
C23_NoAliasing ==
    [][(Caller_Put \/ Caller_Delete \/ Caller_MutateValue)
           => BuildOutcomes' = BuildOutcomes]_vars


\* the keys ToVertex gave the fields of t, each in the case c
KeysOf(t, c) == { InCase(DocumentedKey(t[i]), c) : i \in DOMAIN t }

\* C24: when every key of the vertex ToVertex(x) returned is replaced by its
\* all-lower-case (or all-upper-case) form, FromVertex into a zero-valued
\* instance of the type, tagged or not, returns no error and yields x.
C24_CaseNormalisedKeys ==
    (/\ mret # "none"
     /\ marg.kind \in {"struct", "ptr"}
     /\ \E c \in Cases : DOMAIN mvertex.props = KeysOf(mtype, c))
        => (mret = "nil" /\ mdst.vals = msrc)


\* C25: FromVertex and FromEdge, given a nil pointer of a pointer-to-struct type
\* as the destination, return an error; they do not abort.
C25_NilPointerRejected ==
    (mret # "none" /\ mdst.kind = "nilptr") => IsError(mret)


\* C26: Build never aborts: in every reachable state of either builder, with
\* labels of any length and with or without variable names, it ends by returning
\* a query or an error.
C26_BuildNeverAborts ==
    /\ vres.status \in {"none", "ok", "err"}
    /\ eres.status \in {"none", "ok", "err"}


\* C27: in every successfully built edge query the variables of the start
\* vertex, of the end vertex and of the edge are pairwise distinct, also when
\* they are derived from labels that share their first two characters.
C27_DistinctVariables ==
    eres.status = "ok" =>
        LET q == eres.query
            sv == PatternVar(FirstNode(q))
            ev == PatternVar(Relationship(q))
            dv == PatternVar(SecondNode(q))
        IN  sv # ev /\ sv # dv /\ ev # dv


\* the entries of the selector of a node or relationship pattern
PatternSelector(p) ==
    IF IndexFrom(p, "{", 1) = 0 THEN {}
    ELSE Range(Split(SubSeq(p, IndexFrom(p, "{", 1) + 1, Len(p) - 1), ","))

\* the patterns of a vertex query and of an edge query
Patterns(q, edge) ==
    IF edge THEN <<FirstNode(q), Relationship(q), SecondNode(q)>> ELSE <<FirstNode(q)>>

\* two outcomes of Build that differ at most in the order of the map entries
SameOutcome(r1, r2, edge) ==
    /\ r1.status = r2.status
    /\ r1.err = r2.err
    /\ r1.status = "ok" =>
          /\ Head(r1.query) = Head(r2.query)
          /\ \A i \in DOMAIN Patterns(r1.query, edge) :
                LET p1 == Patterns(r1.query, edge)[i]
                    p2 == Patterns(r2.query, edge)[i]
                IN  /\ PatternVar(p1) = PatternVar(p2)
                    /\ PatternLabels(p1) = PatternLabels(p2)
                    /\ PatternSelector(p1) = PatternSelector(p2)
          /\ Range(Conjuncts(r1.query)) \ {<<>>} = Range(Conjuncts(r2.query)) \ {<<>>}
          /\ ReturnClause(r1.query) = ReturnClause(r2.query)

\* C28: Build does not modify the builder, and a Build that follows a Build with
\* no setter call in between returns the same outcome: the same error, or a
\* query with the same keyword, labels, selector entries, conjuncts and
\* projection. (A setter call counts in calls and clears the last outcome.)
C28_BuildIsRepeatable ==
    [][calls' = calls =>
          /\ vqb' = vqb
          /\ eqb' = eqb
          /\ vres.status # "none" => SameOutcome(vres, vres', FALSE)
          /\ eres.status # "none" => SameOutcome(eres, eres', TRUE)]_vars

C28_Witness ==
    /\ eres.status = "ok"
    /\ Cardinality(DOMAIN eqb.filters) = 2
    /\ eqb.startVertexLabels = <<>>


\* a label list grew by the list a caller passed
Appended(before, after) == \E labels \in EdgeLabelArgs : after = before \o labels

\* C29: the label setters of the edge builder append to the lists, in call
\* order; once the edge label list holds two or more labels every Build fails
\* validation and no later call makes the list shorter.
\* VertexQueryBuilder.SetLabel replaces the list with its argument.
C29_EdgeLabelsAccumulate ==
    /\ []((eres.status # "none" /\ Len(eqb.labels) >= 2) =>
              (eres.status = "err" /\ eres.err = "multiple edge labels cannot be specified"))
    /\ [][/\ eqb'.labels # eqb.labels => Appended(eqb.labels, eqb'.labels)
          /\ eqb'.startVertexLabels # eqb.startVertexLabels =>
                Appended(eqb.startVertexLabels, eqb'.startVertexLabels)
          /\ eqb'.endVertexLabels # eqb.endVertexLabels =>
                Appended(eqb.endVertexLabels, eqb'.endVertexLabels)
          /\ Len(eqb.labels) >= 2 => Len(eqb'.labels) >= Len(eqb.labels)
          /\ vqb'.labels # vqb.labels => vqb'.labels \in VertexLabelArgs]_vars

C29_Witness ==
    /\ eres.err = "multiple edge labels cannot be specified"
    /\ eqb.labels = <<Per, Kn>>
    /\ eqb.startVertexVarName # ""
    /\ eqb.endVertexVarName # ""


\* C30: a call of FromVertex or FromEdge that fails because of an unknown
\* property key, or because the destination is not a pointer to a struct, leaves
\* the destination as it was before the call: no field is assigned, not even
\* for the other keys, which match a field.
C30_FailureLeavesDestination ==
    [][(\/ mret' = "unknown field"
        \/ (IsError(mret') /\ mdst.kind \in {"struct", "scalar", "ptrscalar"}))
           => mdst' = mdst]_vars

C30_Witness ==
    /\ mret = "unknown field"
    /\ mdst = [kind |-> "ptr", vals |-> ZeroInstance(mtype)]
    /\ Len(mtype) = 2
    /\ \E i \in DOMAIN mtype :
          /\ DocumentedKey(mtype[i]) \in DOMAIN GivenProperties
          /\ GivenProperties[DocumentedKey(mtype[i])].kind = mtype[i].kind

=============================================================================
